---------------------------- MODULE Spec2Model ----------------------------
(***************************************************************************)
(* Model of src/Baseline.py: the SecurityComplianceTool session object     *)
(* (document loader, control classifier, recommendation generator, report  *)
(* renderer) and the run_compliance_tool script that drives it.            *)
(*                                                                         *)
(* Python values are modelled as follows.                                  *)
(*   - A dict of controls is a sequence of records in insertion order with *)
(*     pairwise distinct names; None and {} are kept apart by a tag.       *)
(*   - A float is an IEEE-754 binary64 number [man, exp] of value          *)
(*     man * 2^exp.  The 53-bit significand exceeds the integers of the    *)
(*     model checker, so it is kept as three limbs <<w2, w1, w0>> of value *)
(*     w2 * Limb^2 + w1 * Limb + w0.                                       *)
(*   - A value formatted with :.2f is kept as the number of hundredths the *)
(*     string shows (42.86 is 4286).                                       *)
(*   - An f-string is its literal template and the values interpolated.    *)
(*   - A file name is its stem and its extension; "" is the cancelled      *)
(*     dialog.                                                             *)
(***************************************************************************)
EXTENDS Integers, Sequences, FiniteSets

VARIABLES
    baseline_doc,            \* self.baseline_doc
    cis_benchmark,           \* self.cis_benchmark
    compliance_data,         \* self.compliance_data
    compliant_controls,      \* self.compliant_controls
    non_compliant_controls,  \* self.non_compliant_controls
    missing_controls,        \* self.missing_controls
    compliance_score,        \* self.compliance_score
    op,                      \* the last operation called
    ret,                     \* what it returned
    printed,                 \* what it printed
    written,                 \* the files it wrote
    raised,                  \* the exception it let escape, or "none"
    pc,                      \* run_compliance_tool: the next step
    files,                   \* run_compliance_tool: baseline_filename, cis_filename
    failures,                \* history: the error outcomes logged so far
    analysed                 \* history: how often analyze_compliance has classified

fields == <<baseline_doc, cis_benchmark, compliance_data, compliant_controls,
            non_compliant_controls, missing_controls, compliance_score>>
call == <<op, ret, printed, written, raised>>
run == <<pc, files>>
vars == <<fields, call, run, failures, analysed>>

(***************************************************************************)
(* Bounds of the model.                                                    *)
(***************************************************************************)
\* The largest control set the classifier is started on.
MaxControls == 2

(***************************************************************************)
(* IEEE-754 binary64, the arithmetic of Python's float: every operation    *)
(* rounds its exact result to nearest, ties to even.                       *)
(***************************************************************************)
\* The significand of a binary64 number has 53 bits.
MantBits == 53

\* Representation of the significand: three limbs, the lower two of LimbBits.
LimbBits == 18

Limb == 2 ^ LimbBits

TopBits == MantBits - 2 * LimbBits

\* 0.0, and the int 0 that __init__ stores in compliance_score.
FZero == [man |-> <<0, 0, 0>>, exp |-> 0]

\* w * k for a small k; the top limb takes the carry.
WMul(w, k) ==
    LET p0 == w[3] * k
        p1 == w[2] * k + p0 \div Limb
        p2 == w[1] * k + p1 \div Limb
    IN  <<p2, p1 % Limb, p0 % Limb>>

\* w + 1
WInc(w) ==
    IF w[3] + 1 < Limb THEN <<w[1], w[2], w[3] + 1>>
    ELSE IF w[2] + 1 < Limb THEN <<w[1], w[2] + 1, 0>>
    ELSE <<w[1] + 1, 0, 0>>

\* w \div 2^s, 0 <= s <= LimbBits
WShr(w, s) ==
    LET d == 2 ^ s
        u == 2 ^ (LimbBits - s)
    IN  <<w[1] \div d,
          (w[1] % d) * u + w[2] \div d,
          (w[2] % d) * u + w[3] \div d>>

\* A significand rounded up to 2^MantBits becomes 2^(MantBits-1), one exponent higher.
Normalise(m, e) ==
    IF m[1] >= 2 ^ TopBits
    THEN [man |-> <<2 ^ (TopBits - 1), 0, 0>>, exp |-> e + 1]
    ELSE [man |-> m, exp |-> e]

\* p with 2^p <= c / t < 2^(p+1)
Log2Floor(c, t) ==
    CHOOSE p \in (0 - LimbBits)..LimbBits :
        IF p >= 0 THEN t * 2 ^ p <= c /\ c < t * 2 ^ (p + 1)
        ELSE c < t /\ t <= c * 2 ^ (0 - p) /\ c * 2 ^ (0 - p) < 2 * t

\* c / t for Python ints 0 <= c and 1 <= t below 2^12: the correctly rounded
\* quotient, by long division in base Limb.
FDiv(c, t) ==
    IF c = 0 THEN FZero
    ELSE LET p   == Log2Floor(c, t)
             num == IF p < 0 THEN c * 2 ^ (0 - p) ELSE c
             den == IF p > 0 THEN t * 2 ^ p ELSE t
             n1  == num * 2 ^ (TopBits - 1)
             n2  == (n1 % den) * Limb
             n3  == (n2 % den) * Limb
             r   == n3 % den
             q   == <<n1 \div den, n2 \div den, n3 \div den>>
             up  == 2 * r > den \/ (2 * r = den /\ q[3] % 2 = 1)
         IN  Normalise(IF up THEN WInc(q) ELSE q, p - (MantBits - 1))

\* x * k for a float x and a small Python int k: the correctly rounded product.
FMulInt(x, k) ==
    IF x = FZero \/ k = 0 THEN FZero
    ELSE LET p    == WMul(x.man, k)
             s    == CHOOSE i \in 0..LimbBits :
                         /\ p[1] < 2 ^ (TopBits + i)
                         /\ (i = 0 \/ p[1] >= 2 ^ (TopBits + i - 1))
             q    == WShr(p, s)
             d    == p[3] % 2 ^ s
             half == IF s = 0 THEN 1 ELSE 2 ^ (s - 1)
             up   == s > 0 /\ (d > half \/ (d = half /\ q[3] % 2 = 1))
         IN  Normalise(IF up THEN WInc(q) ELSE q, x.exp + s)

\* f"{x:.2f}" for 0 <= x < 2^17: the hundredths shown, which are x * 100
\* rounded to the nearest integer, ties to even.
Fmt2(x) ==
    LET p == WMul(x.man, 100)
        s == 0 - x.exp - 2 * LimbBits
    IN  IF x = FZero \/ s > 30 THEN 0
        ELSE LET int   == IF s = 0 THEN p[1] ELSE p[1] \div 2 ^ s
                 guard == IF s = 0 THEN p[2] \div 2 ^ (LimbBits - 1)
                          ELSE (p[1] \div 2 ^ (s - 1)) % 2
                 rest  == IF s = 0 THEN p[2] % 2 ^ (LimbBits - 1)
                          ELSE p[1] % 2 ^ (s - 1)
                 st    == rest # 0 \/ (s > 0 /\ p[2] # 0) \/ p[3] # 0
                 up    == guard = 1 /\ (st \/ int % 2 = 1)
             IN  IF up THEN int + 1 ELSE int

(***************************************************************************)
(* Python values.                                                          *)
(***************************************************************************)
\* None, as a mapping, a document, a file name or a return value.
NoneDict == [none |-> TRUE, items |-> <<>>]

Dict(items) == [none |-> FALSE, items |-> items]

NoDoc == [none |-> TRUE, text |-> <<>>]

NoneName == [none |-> TRUE, stem |-> "", ext |-> ""]

RetNone == [none |-> TRUE]

Ret(v) == [none |-> FALSE, value |-> v]

Msg(text, args) == [text |-> text, args |-> args]

\* Truthy as `d is not None` would be.
NotNone(d) ==
    ~d.none

\* `not d` is false exactly for a mapping with at least one key.
Truthy(d) ==
    ~d.none /\ Len(d.items) > 0

\* `not name` is false exactly for a non-empty string.
NameGiven(name) ==
    ~name.none /\ (name.stem # "" \/ name.ext # "")

(***************************************************************************)
(* Document loader.                                                        *)
(***************************************************************************)
\* What a file dialog returns: "" when cancelled, else the chosen path.
Cancelled == [none |-> FALSE, stem |-> "", ext |-> ""]

Extensions == {".pdf", ".PDF", ".docx", ".txt", ".exe"}

Selectable ==
    {Cancelled} \cup {[none |-> FALSE, stem |-> "policy", ext |-> e] : e \in Extensions}

\* os.path.splitext(filename)[1]
SplitExt(filename) == filename.ext

\* str.lower on the extensions of the model
Lower(ext) ==
    IF ext = ".PDF" THEN ".pdf" ELSE ext

\* The text extracted from a file.
TextOf(filename) == [none |-> FALSE, text |-> <<filename.stem, filename.ext>>]

Parsed(doc, msgs, exc, outcomes) ==
    [doc |-> doc, printed |-> msgs, raised |-> exc, failures |-> outcomes]

\* readable: whether PyPDF2 extracts the file without an exception
parse_pdf(filename, readable) ==
    IF readable THEN Parsed(TextOf(filename), <<>>, "none", {})
    ELSE Parsed(NoDoc, <<Msg("Error parsing PDF: {e}", <<>>)>>, "none", {"ParseError"})

parse_docx(filename, readable) ==
    IF readable THEN Parsed(TextOf(filename), <<>>, "none", {})
    ELSE Parsed(NoDoc, <<Msg("Error parsing DOCX: {e}", <<>>)>>, "none", {"ParseError"})

\* A text file is opened and read outside any try: a failure escapes.
parse_document(filename, readable) ==
    LET ext == SplitExt(filename) IN
    IF Lower(ext) = ".pdf" THEN parse_pdf(filename, readable)
    ELSE IF Lower(ext) = ".docx" THEN parse_docx(filename, readable)
    ELSE IF Lower(ext) \in {".txt", ".csv"}
         THEN IF readable THEN Parsed(TextOf(filename), <<>>, "none", {})
              ELSE Parsed(NoDoc, <<>>, "OSError", {})
    ELSE Parsed(NoDoc,
                <<Msg("Unsupported file format: {ext}. Please use PDF, DOCX, TXT, or CSV.",
                      <<ext>>)>>,
                "none", {"UnsupportedFormat"})

AskBaseline == Msg("Please select the baseline document...", <<>>)

AskCis == Msg("Please select the CIS benchmark document...", <<>>)

\* upload_files with the dialogs answering b and c; the result names the new
\* documents, the return value, the output and the exception that escapes.
UploadFiles(old_baseline, old_cis, b, c, readable_b, readable_c) ==
    LET pb == parse_document(b, readable_b)
        pc_ == parse_document(c, readable_c)
    IN
    IF ~NameGiven(b) THEN
        [baseline_doc |-> old_baseline, cis_benchmark |-> old_cis,
         ret |-> Ret(<<NoneName, NoneName>>),
         printed |-> <<AskBaseline,
                       Msg("No baseline document selected.  Exiting.", <<>>)>>,
         raised |-> "none", failures |-> {"NoSelection"}]
    ELSE IF ~NameGiven(c) THEN
        [baseline_doc |-> old_baseline, cis_benchmark |-> old_cis,
         ret |-> Ret(<<NoneName, NoneName>>),
         printed |-> <<AskBaseline, AskCis,
                       Msg("No CIS benchmark document selected.  Exiting.", <<>>)>>,
         raised |-> "none", failures |-> {"NoSelection"}]
    ELSE IF pb.raised # "none" THEN
        [baseline_doc |-> old_baseline, cis_benchmark |-> old_cis,
         ret |-> RetNone,
         printed |-> <<AskBaseline, AskCis>>,
         raised |-> pb.raised, failures |-> {}]
    ELSE IF pc_.raised # "none" THEN
        [baseline_doc |-> pb.doc, cis_benchmark |-> old_cis,
         ret |-> RetNone,
         printed |-> <<AskBaseline, AskCis>> \o pb.printed,
         raised |-> pc_.raised, failures |-> pb.failures]
    ELSE
        [baseline_doc |-> pb.doc, cis_benchmark |-> pc_.doc,
         ret |-> Ret(<<b, c>>),
         printed |-> <<AskBaseline, AskCis>> \o pb.printed \o pc_.printed \o
                     <<Msg("Successfully loaded baseline document: {baseline_filename}", <<b>>),
                       Msg("Successfully loaded CIS benchmark: {cis_filename}", <<c>>)>>,
         raised |-> "none", failures |-> pb.failures \cup pc_.failures]

(***************************************************************************)
(* Control classifier.                                                     *)
(***************************************************************************)
Control(name, expected, current) ==
    [control |-> name, expected |-> expected, current |-> current]

\* The dict literal of extract_controls, in insertion order.
ExampleControls ==
    << Control("Strong Password Policy", "implemented", "implemented"),
       Control("Access Control", "implemented", "implemented"),
       Control("Disable LOAD DATA LOCAL INFILE", "0", "1"),
       Control("Error Limit", "3", "10"),
       Control("User Management", "implemented", "implemented"),
       Control("Server-Side Scripting", "disabled", "enabled"),
       Control("Encryption", "implemented", "missing") >>

\* ExtractControls if it took the controls only from two loaded documents.
ExtractControlsFromDocuments ==
    IF baseline_doc.none \/ cis_benchmark.none
    THEN [compliance_data |-> Dict(<<>>), ret |-> Ret(Dict(<<>>))]
    ELSE [compliance_data |-> Dict(ExampleControls), ret |-> Ret(Dict(ExampleControls))]

\* extract_controls: the result names the new compliance_data and the return value.
ExtractControls ==
    [compliance_data |-> Dict(ExampleControls), ret |-> Ret(Dict(ExampleControls))]

Buckets(compliant, non_compliant, missing) ==
    [compliant |-> compliant, non_compliant |-> non_compliant, missing |-> missing]

\* Bucket with the test for "missing" made first.
BucketMissingFirst(values) ==
    IF values.current = "missing" THEN "missing"
    ELSE IF values.current = values.expected THEN "compliant"
    ELSE "non_compliant"

\* The if / elif / else of the loop body; `and` binds tighter than `or`.
Bucket(values) ==
    IF \/ values.current = values.expected
       \/ (values.current = "implemented" /\ values.expected = "implemented")
    THEN "compliant"
    ELSE IF values.current = "missing" THEN "missing"
    ELSE "non_compliant"

\* AppendControl with `if` where the loop body has `elif`.
AppendControlNoElif(b, c) ==
    LET compliant == IF c.current = c.expected
                     THEN Append(b.compliant, c.control) ELSE b.compliant
    IN  IF c.current = "missing"
        THEN Buckets(compliant, b.non_compliant, Append(b.missing, c.control))
        ELSE Buckets(compliant,
                     Append(b.non_compliant,
                            [control |-> c.control, expected |-> c.expected,
                             current |-> c.current]),
                     b.missing)

\* One iteration of the loop: the control is appended to its bucket.
AppendControl(b, c) ==
    IF Bucket(c) = "compliant"
    THEN Buckets(Append(b.compliant, c.control), b.non_compliant, b.missing)
    ELSE IF Bucket(c) = "missing"
    THEN Buckets(b.compliant, b.non_compliant, Append(b.missing, c.control))
    ELSE Buckets(b.compliant,
                 Append(b.non_compliant,
                        [control |-> c.control, expected |-> c.expected,
                         current |-> c.current]),
                 b.missing)

\* The loop over compliance_data.items(), in insertion order.
RECURSIVE Classify(_, _)
Classify(b, items) ==
    IF items = <<>> THEN b
    ELSE Classify(AppendControl(b, Head(items)), Tail(items))

\* ResetBuckets without the three assignments.
KeepBuckets(old) == old

\* The three assignments of [] before the loop.
ResetBuckets(old) == Buckets(<<>>, <<>>, <<>>)

\* Score if it were stored as round(score, 2).
ScoreRounded(compliant_count, total_controls) ==
    FDiv(Fmt2(FMulInt(FDiv(compliant_count, total_controls), 100)), 100)

\* (compliant_count / total_controls) * 100, total_controls >= 1
Score(compliant_count, total_controls) ==
    FMulInt(FDiv(compliant_count, total_controls), 100)

NoDataAnalyze ==
    Msg("No compliance data available. Please extract controls first.", <<>>)

\* analyze_compliance on a session holding data, old buckets and old score; the
\* result names the new buckets and score, the return value, the output and the
\* exception that escapes.  The buckets are assigned before the division.
AnalyzeCompliance(data, old, old_score) ==
    LET b     == Classify(ResetBuckets(old), data.items)
        total == Len(data.items)
        score == Score(Len(b.compliant), total)
    IN
    IF ~Truthy(data) THEN
        [buckets |-> old, score |-> old_score, ret |-> RetNone,
         printed |-> <<NoDataAnalyze>>, raised |-> "none", classified |-> FALSE]
    ELSE IF total = 0 THEN
        [buckets |-> b, score |-> old_score, ret |-> RetNone,
         printed |-> <<>>, raised |-> "ZeroDivisionError", classified |-> TRUE]
    ELSE
        [buckets |-> b, score |-> score,
         ret |-> Ret([compliant |-> b.compliant, non_compliant |-> b.non_compliant,
                      missing |-> b.missing, score |-> score]),
         printed |-> <<>>, raised |-> "none", classified |-> TRUE]

(***************************************************************************)
(* Recommendation generator.                                               *)
(***************************************************************************)
LoadInfileTemplate ==
    "Set load-infile=0 in MySQL configuration to prevent local file access. Current value: {current}, Expected: {expected}"

ErrorLimitTemplate ==
    "Change max_connect_errors={expected} in my.cnf to prevent brute force attacks. Current value: {current}"

ScriptingTemplate ==
    "Disable server-side scripting to mitigate JavaScript injection attacks. Current state: {current}, Expected: {expected}"

UpdateTemplate ==
    "Update {control} configuration from {current} to {expected}"

TlsTemplate ==
    "Configure TLS for database connections"

ImplementTemplate ==
    "Implement {control} according to CIS benchmark guidelines"

Recommendation(control, template, args) ==
    [control |-> control, recommendation |-> Msg(template, args)]

\* RecommendFix without the table of control names.
RecommendFixGeneric(item) ==
    Recommendation(item.control, UpdateTemplate,
                   <<item.control, item.current, item.expected>>)

\* The branch taken for one item of non_compliant_controls.
RecommendFix(item) ==
    IF item.control = "Disable LOAD DATA LOCAL INFILE"
    THEN Recommendation(item.control, LoadInfileTemplate, <<item.current, item.expected>>)
    ELSE IF item.control = "Error Limit"
    THEN Recommendation(item.control, ErrorLimitTemplate, <<item.expected, item.current>>)
    ELSE IF item.control = "Server-Side Scripting"
    THEN Recommendation(item.control, ScriptingTemplate, <<item.current, item.expected>>)
    ELSE Recommendation(item.control, UpdateTemplate,
                        <<item.control, item.current, item.expected>>)

\* The branch taken for one name of missing_controls.
RecommendImplement(control) ==
    IF control = "Encryption"
    THEN Recommendation(control, TlsTemplate, <<>>)
    ELSE Recommendation(control, ImplementTemplate, <<control>>)

\* GenerateRecommendations without the two else branches.
RecommendationsKnownOnly(non_compliant, missing) ==
    SelectSeq([i \in 1..Len(non_compliant) |-> RecommendFix(non_compliant[i])],
              LAMBDA r : r.recommendation.text # UpdateTemplate)
    \o SelectSeq([i \in 1..Len(missing) |-> RecommendImplement(missing[i])],
                 LAMBDA r : r.recommendation.text # ImplementTemplate)

\* generate_recommendations: the two loops append in bucket order.
GenerateRecommendations(non_compliant, missing) ==
    [i \in 1..Len(non_compliant) |-> RecommendFix(non_compliant[i])]
    \o [i \in 1..Len(missing) |-> RecommendImplement(missing[i])]

(***************************************************************************)
(* Report renderer.                                                        *)
(***************************************************************************)
ReportFile == "security_compliance_report.html"

ChartFile == "compliance_charts.png"

NoDataReport ==
    Msg("No compliance data available. Please analyze compliance first.", <<>>)

\* (len(bucket) / total_controls) * 100 as the breakdown shows it
Percent(count, total_controls) ==
    [count |-> count, percent |-> Fmt2(FMulInt(FDiv(count, total_controls), 100))]

\* The guard of generate_report: the early return is taken when it is false.
ReportGuard(data) == Truthy(data)

\* The html text: every value the f-strings interpolate, in document order.
HtmlReport(baseline_filename, cis_filename, score, b, recommendations, total) ==
    [baseline |-> baseline_filename, cis |-> cis_filename, score |-> Fmt2(score),
     compliant |-> b.compliant, non_compliant |-> b.non_compliant,
     missing |-> b.missing, recommendations |-> recommendations,
     breakdown |-> <<Percent(Len(b.compliant), total),
                     Percent(Len(b.non_compliant), total),
                     Percent(Len(b.missing), total)>>]

\* generate_report; chart_drawn says whether matplotlib draws the chart without
\* an exception.
GenerateReport(data, b, score, baseline_filename, cis_filename, chart_drawn) ==
    LET total == Len(data.items)
        recs  == GenerateRecommendations(b.non_compliant, b.missing)
        sizes == Len(b.compliant) + Len(b.non_compliant) + Len(b.missing)
    IN
    IF ~ReportGuard(data) THEN
        [ret |-> RetNone, printed |-> <<NoDataReport>>, written |-> {},
         raised |-> "none"]
    ELSE IF total = 0 THEN
        [ret |-> RetNone, printed |-> <<>>, written |-> {},
         raised |-> "ZeroDivisionError"]
    ELSE IF sizes = 0 /\ ~chart_drawn THEN
        [ret |-> RetNone, printed |-> <<>>, written |-> {},
         raised |-> "ValueError"]
    ELSE
        [ret |-> Ret(HtmlReport(baseline_filename, cis_filename, score, b, recs, total)),
         printed |-> <<Msg("Report saved as 'security_compliance_report.html'", <<>>),
                       Msg("Visualization saved as 'compliance_charts.png'", <<>>),
                       Msg("Opening the report in your browser...", <<>>)>>,
         written |-> {ChartFile, ReportFile},
         raised |-> "none"]

(***************************************************************************)
(* Initial states.                                                         *)
(***************************************************************************)
ControlNames == {"Disable LOAD DATA LOCAL INFILE", "Encryption", "Audit Logging"}

ControlValues == {"implemented", "missing", "0"}

Controls ==
    {Control(n, e, c) : n \in ControlNames, e \in ControlValues, c \in ControlValues}

\* The mappings of at most MaxControls controls: the keys of a dict are distinct.
ControlSets ==
    {s \in UNION {[1..n -> Controls] : n \in 0..MaxControls} :
        \A i, j \in 1..Len(s) : i # j => s[i].control # s[j].control}

\* The baseline and benchmark a caller names when it asks for a report.
ReportNames ==
    LET name(e) == [none |-> FALSE, stem |-> "policy", ext |-> e]
    IN  {<<name(".pdf"), name(".docx")>>, <<name(".txt"), name(".pdf")>>}

\* Whether matplotlib draws the chart: open for a pie of three zero sizes only.
ChartOutcomes(b) ==
    IF Len(b.compliant) + Len(b.non_compliant) + Len(b.missing) = 0
    THEN BOOLEAN ELSE {TRUE}

\* __init__
Constructed ==
    /\ baseline_doc = NoDoc
    /\ cis_benchmark = NoDoc
    /\ compliance_data = NoneDict
    /\ compliant_controls = <<>>
    /\ non_compliant_controls = <<>>
    /\ missing_controls = <<>>
    /\ compliance_score = FZero

Idle ==
    /\ op = "__init__"
    /\ ret = RetNone
    /\ printed = <<>>
    /\ written = {}
    /\ raised = "none"
    /\ files = <<NoneName, NoneName>>
    /\ failures = {}
    /\ analysed = "never"

\* A new session.
SessionInit ==
    /\ Constructed
    /\ Idle
    /\ pc = "session"

\* A new session whose compliance_data a caller has set to any mapping, or left None.
Init ==
    /\ baseline_doc = NoDoc
    /\ cis_benchmark = NoDoc
    /\ compliance_data \in {NoneDict} \cup {Dict(s) : s \in ControlSets}
    /\ compliant_controls = <<>>
    /\ non_compliant_controls = <<>>
    /\ missing_controls = <<>>
    /\ compliance_score = FZero
    /\ Idle
    /\ pc = "session"

\* run_compliance_tool has constructed the tool.
RunInit ==
    /\ Constructed
    /\ Idle
    /\ pc = "upload_files"

(***************************************************************************)
(* The operations of a session.                                            *)
(***************************************************************************)
CurrentBuckets ==
    Buckets(compliant_controls, non_compliant_controls, missing_controls)

Upload(u) ==
    /\ baseline_doc' = u.baseline_doc
    /\ cis_benchmark' = u.cis_benchmark
    /\ op' = "upload_files"
    /\ ret' = u.ret
    /\ written' = {}
    /\ raised' = u.raised
    /\ failures' = failures \cup u.failures
    /\ UNCHANGED <<compliance_data, compliant_controls, non_compliant_controls,
                   missing_controls, compliance_score, analysed>>

Extract(x) ==
    /\ compliance_data' = x.compliance_data
    /\ op' = "extract_controls"
    /\ ret' = x.ret
    /\ written' = {}
    /\ raised' = "none"
    /\ UNCHANGED <<baseline_doc, cis_benchmark, compliant_controls,
                   non_compliant_controls, missing_controls, compliance_score,
                   failures, analysed>>

Analyze(a) ==
    /\ compliant_controls' = a.buckets.compliant
    /\ non_compliant_controls' = a.buckets.non_compliant
    /\ missing_controls' = a.buckets.missing
    /\ compliance_score' = a.score
    /\ op' = "analyze_compliance"
    /\ ret' = a.ret
    /\ written' = {}
    /\ raised' = a.raised
    /\ analysed' = IF ~a.classified THEN analysed
                    ELSE IF analysed = "never" THEN "once" ELSE "repeatedly"
    /\ UNCHANGED <<baseline_doc, cis_benchmark, compliance_data, failures>>

Report(g) ==
    /\ op' = "generate_report"
    /\ ret' = g.ret
    /\ written' = g.written
    /\ raised' = g.raised
    /\ UNCHANGED <<fields, failures, analysed>>

upload_files ==
    \E b, c \in Selectable, readable_b, readable_c \in BOOLEAN :
        LET u == UploadFiles(baseline_doc, cis_benchmark, b, c, readable_b, readable_c)
        IN  /\ Upload(u)
            /\ printed' = u.printed
            /\ UNCHANGED run

extract_controls ==
    /\ Extract(ExtractControls)
    /\ printed' = <<>>
    /\ UNCHANGED run

analyze_compliance ==
    LET a == AnalyzeCompliance(compliance_data, CurrentBuckets, compliance_score)
    IN  /\ Analyze(a)
        /\ printed' = a.printed
        /\ UNCHANGED run

generate_recommendations ==
    /\ op' = "generate_recommendations"
    /\ ret' = Ret(GenerateRecommendations(non_compliant_controls, missing_controls))
    /\ printed' = <<>>
    /\ written' = {}
    /\ raised' = "none"
    /\ UNCHANGED <<fields, run, failures, analysed>>

generate_report ==
    \E names \in ReportNames, chart_drawn \in ChartOutcomes(CurrentBuckets) :
        LET g == GenerateReport(compliance_data, CurrentBuckets, compliance_score,
                                names[1], names[2], chart_drawn)
        IN  /\ Report(g)
            /\ printed' = g.printed
            /\ UNCHANGED run

(***************************************************************************)
(* run_compliance_tool, one step per call it makes; an exception that      *)
(* escapes a call ends the run.                                            *)
(***************************************************************************)
RunUpload ==
    /\ pc = "upload_files"
    /\ \E b, c \in Selectable, readable_b, readable_c \in BOOLEAN :
        LET u == UploadFiles(baseline_doc, cis_benchmark, b, c, readable_b, readable_c)
        IN  /\ Upload(u)
            /\ IF u.raised # "none"
               THEN /\ printed' = u.printed
                    /\ pc' = "crashed"
                    /\ UNCHANGED files
               ELSE IF ~NameGiven(u.ret.value[1]) \/ ~NameGiven(u.ret.value[2])
               THEN /\ printed' = u.printed \o <<Msg("Exiting due to file errors.", <<>>)>>
                    /\ pc' = "returned"
                    /\ files' = u.ret.value
               ELSE /\ printed' = u.printed
                    /\ pc' = "extract_controls"
                    /\ files' = u.ret.value

RunExtract ==
    /\ pc = "extract_controls"
    /\ Extract(ExtractControls)
    /\ printed' = <<Msg("Extracted controls from documents", <<>>)>>
    /\ pc' = "analyze_compliance"
    /\ UNCHANGED files

RunAnalyze ==
    /\ pc = "analyze_compliance"
    /\ LET a == AnalyzeCompliance(compliance_data, CurrentBuckets, compliance_score)
       IN  /\ Analyze(a)
           /\ IF a.raised # "none"
              THEN printed' = a.printed /\ pc' = "crashed"
              ELSE /\ printed' = a.printed \o
                        <<Msg("Compliance analysis complete. Overall score: {tool.compliance_score:.2f}%",
                              <<Fmt2(a.score)>>)>>
                   /\ pc' = "generate_report"
    /\ UNCHANGED files

RunReport ==
    /\ pc = "generate_report"
    /\ \E chart_drawn \in ChartOutcomes(CurrentBuckets) :
        LET g == GenerateReport(compliance_data, CurrentBuckets, compliance_score,
                                files[1], files[2], chart_drawn)
        IN  /\ Report(g)
            /\ printed' = <<Msg("Generating compliance report...", <<>>)>> \o g.printed
            /\ pc' = IF g.raised # "none" THEN "crashed" ELSE "returned"
    /\ UNCHANGED files

(***************************************************************************)
(* Specifications.                                                         *)
(***************************************************************************)
\* The classifier, the recommender and the renderer on any control set.
Next ==
    \/ extract_controls
    \/ analyze_compliance
    \/ generate_recommendations
    \/ generate_report

Spec == Init /\ [][Next]_vars

\* Any sequence of operations on one new session.
SessionNext ==
    \/ upload_files
    \/ extract_controls
    \/ analyze_compliance
    \/ generate_recommendations
    \/ generate_report

SessionSpec == SessionInit /\ [][SessionNext]_vars

\* One run of run_compliance_tool.
RunNext ==
    \/ RunUpload
    \/ RunExtract
    \/ RunAnalyze
    \/ RunReport

RunSpec == RunInit /\ [][RunNext]_vars

(***************************************************************************)
(* Properties.                                                             *)
(***************************************************************************)
\* analyze_compliance has just classified a non-empty control set.
Classified ==
    op = "analyze_compliance" /\ ~ret.none

ControlOf(seq) ==
    [i \in 1..Len(seq) |-> seq[i].control]

Occurrences(seq, x) ==
    Cardinality({i \in 1..Len(seq) : seq[i] = x})

InSeq(seq, x) ==
    \E i \in 1..Len(seq) : seq[i] = x

\* Every name the three buckets hold, bucket by bucket.
Bucketed ==
    compliant_controls \o ControlOf(non_compliant_controls) \o missing_controls

\* C1: after analyze_compliance on a non-empty control set, each control name
\* appears exactly once over compliant_controls, the 'control' fields of
\* non_compliant_controls and missing_controls, and the three sizes add up to
\* the number of controls.
C1_ExactPartition ==
    Classified =>
        /\ Len(compliant_controls) + Len(non_compliant_controls)
             + Len(missing_controls) = Len(compliance_data.items)
        /\ \A i \in 1..Len(compliance_data.items) :
             Occurrences(Bucketed, compliance_data.items[i].control) = 1

C1_Witness ==
    /\ Classified
    /\ compliance_data.items \in ControlSets
    /\ Len(non_compliant_controls) = 1
    /\ Len(missing_controls) = 1

\* C2: analyze_compliance puts a control in compliant_controls exactly when
\* current == expected, else in missing_controls exactly when current is
\* "missing", else in non_compliant_controls with its own expected and current
\* values; a control expected "missing" and currently "missing" is compliant,
\* not missing.
C2_OrderedRule ==
    Classified =>
        \A i \in 1..Len(compliance_data.items) :
            LET v == compliance_data.items[i]
                own == [control |-> v.control, expected |-> v.expected,
                        current |-> v.current]
            IN  /\ InSeq(compliant_controls, v.control) <=> v.current = v.expected
                /\ InSeq(missing_controls, v.control)
                     <=> (v.current # v.expected /\ v.current = "missing")
                /\ InSeq(non_compliant_controls, own)
                     <=> (v.current # v.expected /\ v.current # "missing")
                /\ InSeq(ControlOf(non_compliant_controls), v.control)
                     => InSeq(non_compliant_controls, own)

C2_Witness ==
    /\ Classified
    /\ \E i \in 1..Len(compliance_data.items) :
         LET v == compliance_data.items[i]
         IN  /\ v.expected = "missing"
             /\ v.current = "missing"
             /\ InSeq(compliant_controls, v.control)
             /\ ~InSeq(missing_controls, v.control)
    /\ missing_controls # <<>>

\* x <= y for floats x, y >= 0
FLeq(x, y) ==
    \/ x = FZero /\ (y = FZero \/ y.man[1] >= 2 ^ (TopBits - 1))
    \/ /\ x # FZero
       /\ y # FZero
       /\ \/ x.exp < y.exp
          \/ /\ x.exp = y.exp
             /\ \/ x.man[1] < y.man[1]
                \/ x.man[1] = y.man[1] /\ x.man[2] < y.man[2]
                \/ x.man[1] = y.man[1] /\ x.man[2] = y.man[2] /\ x.man[3] <= y.man[3]

\* |x * t - 100 * c| <= tol * ulp(x), in exact arithmetic, where ulp(x) is
\* 2^x.exp, the weight of the last bit of x.
NearQuotient(x, c, t, tol) ==
    IF c = 0 \/ x = FZero THEN c = 0 /\ x = FZero
    ELSE LET w == WMul(x.man, t)
             s == 0 - x.exp - 2 * LimbBits
         IN  /\ s \in 0..20
             /\ LET top == 100 * c * 2 ^ s
                IN  \/ w[1] = top /\ w[2] = 0 /\ w[3] <= tol
                    \/ w[1] = top - 1 /\ w[2] = Limb - 1 /\ Limb - w[3] <= tol

\* The hundredths n are 10000 * c / t rounded to the nearest integer.
NearestHundredths(n, c, t) ==
    /\ 2 * (n * t - 10000 * c) <= t
    /\ 2 * (10000 * c - n * t) <= t

C4_Idempotent ==
    [][op' = "analyze_compliance" =>
        /\ op = "analyze_compliance" =>
             /\ compliance_data' = compliance_data
             /\ compliant_controls' = compliant_controls
             /\ non_compliant_controls' = non_compliant_controls
             /\ missing_controls' = missing_controls
             /\ compliance_score' = compliance_score
             /\ ret' = ret
        /\ ~ret'.none =>
             /\ Len(compliant_controls') + Len(non_compliant_controls')
                  + Len(missing_controls') = Len(compliance_data'.items)
             /\ ret'.value = [compliant |-> compliant_controls',
                              non_compliant |-> non_compliant_controls',
                              missing |-> missing_controls',
                              score |-> compliance_score']]_vars

C4_Witness ==
    /\ Classified
    /\ analysed = "repeatedly"
    /\ compliance_data.items \in ControlSets
    /\ Len(compliance_data.items) = MaxControls
    /\ non_compliant_controls # <<>>

\* C5: generate_recommendations raises nothing and returns one recommendation
\* per item: first one per entry of non_compliant_controls, then one per entry
\* of missing_controls, each naming its control, in bucket order; a control no
\* template matches gets the fallback text.
C5_OnePerItem ==
    op = "generate_recommendations" =>
        /\ raised = "none"
        /\ ~ret.none
        /\ Len(ret.value) = Len(non_compliant_controls) + Len(missing_controls)
        /\ ControlOf(ret.value) = ControlOf(non_compliant_controls) \o missing_controls
        /\ \A i \in 1..Len(ret.value) :
             ret.value[i].recommendation.text \in
                 {LoadInfileTemplate, ErrorLimitTemplate, ScriptingTemplate,
                  UpdateTemplate, TlsTemplate, ImplementTemplate}

C5_Witness ==
    /\ op = "generate_recommendations"
    /\ Len(non_compliant_controls) = 1
    /\ Len(missing_controls) = 1
    /\ ret.value[1].recommendation.text = UpdateTemplate
    /\ ret.value[2].recommendation.text = ImplementTemplate

\* C6, as claimed: every recommendation for 'Disable LOAD DATA LOCAL INFILE'
\* uses the template that mentions "load-infile=0", and every recommendation
\* for a missing 'Encryption' uses the template that mentions "TLS".
C6_TemplatePerName ==
    op = "generate_recommendations" =>
        \A i \in 1..Len(ret.value) :
            /\ ret.value[i].control = "Disable LOAD DATA LOCAL INFILE"
                 => ret.value[i].recommendation.text = LoadInfileTemplate
            /\ (i > Len(non_compliant_controls) /\ ret.value[i].control = "Encryption")
                 => ret.value[i].recommendation.text = TlsTemplate

\* C6, amended: every recommendation for 'Disable LOAD DATA LOCAL INFILE' when
\* it is classified non-compliant uses the template that mentions
\* "load-infile=0" (filled with its current and expected values), and every
\* recommendation for 'Encryption' when it is classified missing uses the
\* template that mentions "TLS".
C6_TemplatePerBucket ==
    op = "generate_recommendations" =>
        \A i \in 1..Len(ret.value) :
            /\ (i <= Len(non_compliant_controls)
                  /\ ret.value[i].control = "Disable LOAD DATA LOCAL INFILE")
                 => /\ ret.value[i].recommendation.text = LoadInfileTemplate
                    /\ ret.value[i].recommendation.args =
                         <<non_compliant_controls[i].current,
                           non_compliant_controls[i].expected>>
            /\ (i > Len(non_compliant_controls) /\ ret.value[i].control = "Encryption")
                 => ret.value[i].recommendation.text = TlsTemplate

C6_Witness ==
    /\ op = "generate_recommendations"
    /\ compliance_data.items \in ControlSets
    /\ Len(ret.value) = 2
    /\ ret.value[1].control = "Disable LOAD DATA LOCAL INFILE"
    /\ ret.value[1].recommendation.text = LoadInfileTemplate
    /\ ret.value[2].control = "Encryption"
    /\ ret.value[2].recommendation.text = TlsTemplate

\* C7: on a session whose controls come from extract_controls, whatever
\* upload_files loaded, analyze_compliance yields the three compliant names in
\* order, the three non-compliant records, Encryption missing, and the score
\* (3 / 7) * 100, which is the float 42.857142857142854 and shows as 42.86.
C7_ExampleDataset ==
    (op = "analyze_compliance" /\ ~compliance_data.none) =>
        /\ ~ret.none
        /\ ret.value =
             [compliant |-> <<"Strong Password Policy", "Access Control", "User Management">>,
              non_compliant |->
                  << [control |-> "Disable LOAD DATA LOCAL INFILE",
                      expected |-> "0", current |-> "1"],
                     [control |-> "Error Limit", expected |-> "3", current |-> "10"],
                     [control |-> "Server-Side Scripting",
                      expected |-> "disabled", current |-> "enabled"] >>,
              missing |-> <<"Encryption">>,
              score |-> [man |-> <<87771, 112347, 112347>>, exp |-> 0 - 47]]
        /\ compliant_controls = ret.value.compliant
        /\ non_compliant_controls = ret.value.non_compliant
        /\ missing_controls = ret.value.missing
        /\ compliance_score = ret.value.score
        /\ Fmt2(compliance_score) = 4286

C7_Witness ==
    /\ Classified
    /\ analysed = "repeatedly"
    /\ ~baseline_doc.none
    /\ cis_benchmark.none
    /\ "UnsupportedFormat" \in failures

\* C8, as claimed: once a run has met UnsupportedFormat, ParseError or
\* NoSelection, it extracts no controls, analyses nothing and generates no
\* report.
C8_AbortsOnFailure ==
    failures # {} =>
        op \notin {"extract_controls", "analyze_compliance", "generate_report"}

\* C9, as claimed: generate_report requested while analyze_compliance has not
\* run prints its message and returns early: it returns nothing, writes no
\* file and raises nothing.
C9_ReportNeedsAnalysis ==
    (op = "generate_report" /\ analysed = "never") =>
        /\ ret.none
        /\ printed = <<NoDataReport>>
        /\ written = {}
        /\ raised = "none"

\* C10: no call ends in a division by zero; analyze_compliance on an empty or
\* absent control set prints its message, returns nothing and leaves the
\* buckets and the score as they were, and generate_report on it prints its
\* message and returns before the percentage breakdown, writing nothing.
C10_NoDivisionByZero ==
    [][/\ raised' # "ZeroDivisionError"
       /\ (op' = "analyze_compliance"
             /\ (compliance_data.none \/ compliance_data.items = <<>>)) =>
            /\ ret'.none
            /\ printed' = <<NoDataAnalyze>>
            /\ raised' = "none"
            /\ UNCHANGED <<compliant_controls, non_compliant_controls,
                           missing_controls, compliance_score>>
       /\ (op' = "generate_report"
             /\ (compliance_data.none \/ compliance_data.items = <<>>)) =>
            /\ ret'.none
            /\ printed' = <<NoDataReport>>
            /\ raised' = "none"
            /\ written' = {}
       /\ (op' \in {"analyze_compliance", "generate_report"} /\ ~ret'.none) =>
            Len(compliance_data.items) >= 1]_vars

C10_Witness ==
    /\ op = "analyze_compliance"
    /\ compliance_data = Dict(<<>>)
    /\ ret.none
    /\ printed = <<NoDataAnalyze>>
    /\ raised = "none"

=============================================================================
